---------------------------- MODULE Spec2Model ----------------------------
(***************************************************************************)
(* Word-frequency pipeline of src/main.cpp: tokens are pulled from stdin,  *)
(* filtered by is_alpha_word, lower-cased, counted, turned into            *)
(* (count, word) pairs, sorted by count, re-sorted by word inside each     *)
(* run of equal count, and printed.  Characters are their ASCII codes, a   *)
(* string is a sequence of codes, an iterator into a vector is an index    *)
(* 1..Len+1 (Len+1 is end()).                                              *)
(***************************************************************************)
EXTENDS Integers, Sequences, FiniteSets, Bags, TLC

VARIABLES
    pc,             \* position of main
    cin_bag,        \* the tokens extracted from std::cin so far, as a bag
    cin_eof,        \* std::cin has reported end-of-stream
    words,          \* std::vector<std::string> words
    counts_map,     \* std::unordered_map<std::string, unsigned> (word -> count)
    count_pairs,    \* std::vector<count_pair_t>, entries <<count, word>>
    just_counts,    \* std::set<unsigned int>
    cnt_it,         \* position of the range-for over just_counts_rng
    n,              \* loop variable of the grouping loop
    current,        \* iterator current
    sub_rng,        \* <<first, last>> of the last sub_rng built (last exclusive)
    check_count,
    sub_rng_count,
    took_break,     \* the grouping loop left through its break branch
    sorted_runs,    \* every sub_rng the loop sorted, in order
    stdout,         \* lines written to std::cout
    stderr          \* lines written to std::cerr / stderr

vars == << pc, cin_bag, cin_eof, words, counts_map, count_pairs, just_counts,
           cnt_it, n, current, sub_rng, check_count, sub_rng_count,
           took_break, sorted_runs, stdout, stderr >>

-----------------------------------------------------------------------------
(* Bounds *)

\* tokens the input stream delivers before end-of-stream
MaxTokens == 6

\* length of the tokens the predicate is probed with
MaxWordLen == 3

\* '#' '-' '1' 'A' '_' 'a' 'z'
Chars == {35, 45, 49, 65, 95, 97, 122}

RECURSIVE SeqsUpTo(_, _)
SeqsUpTo(S, k) ==
    IF k = 0 THEN {<< >>}
    ELSE LET shorter == SeqsUpTo(S, k - 1)
         IN  shorter \cup {Append(s, c) : s \in shorter, c \in S}

\* every non-empty token over Chars of at most MaxWordLen characters
ProbeTokens == SeqsUpTo(Chars, MaxWordLen) \ {<< >>}

\* "a"  "A"  "b"  "a-B"  "b2"
StreamTokens == {<<97>>, <<65>>, <<98>>, <<97, 45, 66>>, <<98, 50>>}

-----------------------------------------------------------------------------
(* <cctype> in the "C" locale, on ASCII *)

isalpha(c) == (c >= 65 /\ c <= 90) \/ (c >= 97 /\ c <= 122)

tolower(c) == IF c >= 65 /\ c <= 90 THEN c + 32 ELSE c

(* std::string::compare / operator< : byte-wise, then by length *)
RECURSIVE string_compare(_, _)
string_compare(x, y) ==
    IF x = << >> /\ y = << >> THEN 0
    ELSE IF x = << >> THEN -1
    ELSE IF y = << >> THEN 1
    ELSE IF Head(x) < Head(y) THEN -1
    ELSE IF Head(x) > Head(y) THEN 1
    ELSE string_compare(Tail(x), Tail(y))

string_less(x, y) == string_compare(x, y) < 0

-----------------------------------------------------------------------------
(* The lambdas of main *)

other_allowed(first_char, c) ==
    IF first_char = 35 THEN FALSE ELSE (c = 45 \/ c = 95)

\* the for loop over subwrd: FALSE as soon as a character is refused
RECURSIVE subwrd_ok(_, _)
subwrd_ok(first_char, subwrd) ==
    IF subwrd = << >> THEN TRUE
    ELSE IF ~isalpha(Head(subwrd)) /\ ~other_allowed(first_char, Head(subwrd))
         THEN FALSE
         ELSE subwrd_ok(first_char, Tail(subwrd))

\* a plausible slip: the '-'/'_' exemption stays on after a leading '#'
is_alpha_word_hash_exempt(word) ==
    LET first_char == Head(word)
    IN  IF ~subwrd_ok(65, Tail(word)) THEN FALSE
        ELSE ~(~isalpha(first_char) /\ first_char # 35 /\ first_char # 95)

is_alpha_word(word) ==
    LET first_char == Head(word)
        subwrd == Tail(word)
    IN  IF ~subwrd_ok(first_char, subwrd) THEN FALSE
        ELSE ~(~isalpha(first_char) /\ first_char # 35 /\ first_char # 95)

to_lower_case(word) == [i \in 1..Len(word) |-> tolower(word[i])]

flip_pair(key, value) == <<value, key>>

compare_counts(x, y) == x[1] > y[1]

\* a plausible slip: the comparison the other way round
compare_words_reversed(x, y) == string_compare(x[2], y[2]) > 0

compare_words(x, y) == string_compare(x[2], y[2]) < 0

found_pred(arg1, arg2) == arg1[1] = arg2[1]

-----------------------------------------------------------------------------
(* <algorithm> *)

Min(S) == CHOOSE x \in S : \A y \in S : x <= y
Max(S) == CHOOSE x \in S : \A y \in S : x >= y

\* the arrangements std::ranges::sort can leave its range in are the
\* permutations its comparator accepts (the sort is not stable)
PermSeqs(s) ==
    {[i \in 1..Len(s) |-> s[p[i]]] : p \in Permutations(1..Len(s))}

\* std::find_first_of with a one-element search range
find_first_of(v, first, last, item) ==
    LET hits == {i \in first..(last - 1) : found_pred(v[i], item)}
    IN  IF hits = {} THEN last ELSE Min(hits)

\* a plausible slip: the first match is taken for the last one
find_end_first_match(v, first, last, item) ==
    find_first_of(v, first, last, item)

\* std::find_end with a one-element search range
find_end(v, first, last, item) ==
    LET hits == {i \in first..(last - 1) : found_pred(v[i], item)}
    IN  IF hits = {} THEN last ELSE Max(hits)

\* std::ranges::unique + erase: adjacent duplicates removed
RECURSIVE unique(_)
unique(s) ==
    IF Len(s) <= 1 THEN s
    ELSE IF s[1] = s[2] THEN unique(Tail(s))
    ELSE <<s[1]>> \o unique(Tail(s))

-----------------------------------------------------------------------------
(* count_occurrences *)

\* a plausible slip: the entry is overwritten with 1 instead of incremented
count_elem_no_increment(counts, elem) ==
    [k \in (DOMAIN counts) \cup {elem} |->
        IF k = elem THEN 1 ELSE counts[k]]

\* the body of the for_each lambda (unsigned int: no wrap-around below 2^32
\* occurrences of one word, which no stream of MaxTokens tokens reaches)
count_elem(counts, elem) ==
    LET new_count == IF elem \in DOMAIN counts
                     THEN 1 + counts[elem]
                     ELSE 1
    IN  [k \in (DOMAIN counts) \cup {elem} |->
            IF k = elem THEN new_count ELSE counts[k]]

RECURSIVE count_from(_, _)
count_from(counts, collection) ==
    IF collection = << >> THEN counts
    ELSE count_from(count_elem(counts, Head(collection)), Tail(collection))

count_occurrences(collection) == count_from(<< >>, collection)

-----------------------------------------------------------------------------
(* main *)

\* the orders in which iterating the unordered_map can yield its keys
map_orders(m) ==
    {s \in [1..Cardinality(DOMAIN m) -> DOMAIN m] :
        \A i, j \in DOMAIN s : i # j => s[i] # s[j]}

\* std::views::reverse over the std::set: largest count first
RECURSIVE reverse_view(_)
reverse_view(S) ==
    IF S = {} THEN << >>
    ELSE <<Max(S)>> \o reverse_view(S \ {Max(S)})

just_counts_rng == reverse_view(just_counts)

very_end == Len(count_pairs) + 1

\* a plausible slip: the + 1 that makes the end exclusive is forgotten
make_sub_rng_no_plus_one(first, sub_rng_end) == <<first, sub_rng_end>>

make_sub_rng(first, sub_rng_end) ==
    <<first, IF sub_rng_end # very_end THEN sub_rng_end + 1 ELSE sub_rng_end>>

\* print_collection: one line "<count>: <word>" per element, kept as the pair
print_collection(coll) == coll

Init ==
    /\ pc = "read"
    /\ cin_bag = EmptyBag
    /\ cin_eof = FALSE
    /\ words = << >>
    /\ counts_map = << >>
    /\ count_pairs = << >>
    /\ just_counts = {}
    /\ cnt_it = 1
    /\ n = 0
    /\ current = 1
    /\ sub_rng = <<1, 1>>
    /\ check_count = 0
    /\ sub_rng_count = 0
    /\ took_break = FALSE
    /\ sorted_runs = << >>
    /\ stdout = << >>
    /\ stderr = << >>

\* a plausible slip: each kept word is echoed as soon as it is pulled
ReadToken_echo(tok) ==
    /\ pc = "read"
    /\ ~cin_eof
    /\ cin_bag' = cin_bag (+) SetToBag({tok})
    /\ words' = IF is_alpha_word(tok)
                THEN Append(words, to_lower_case(tok))
                ELSE words
    /\ stderr' = IF is_alpha_word(tok)
                 THEN Append(stderr, <<"word", to_lower_case(tok)>>)
                 ELSE stderr
    /\ UNCHANGED << pc, cin_eof, counts_map, count_pairs, just_counts, cnt_it,
                    n, current, sub_rng, check_count, sub_rng_count,
                    took_break, sorted_runs, stdout >>

\* one pull of rng0 by append_range: extract, filter, transform, emplace_back
ReadToken(tok) ==
    /\ pc = "read"
    /\ ~cin_eof
    /\ cin_bag' = cin_bag (+) SetToBag({tok})
    /\ words' = IF is_alpha_word(tok)
                THEN Append(words, to_lower_case(tok))
                ELSE words
    /\ UNCHANGED << pc, cin_eof, counts_map, count_pairs, just_counts, cnt_it,
                    n, current, sub_rng, check_count, sub_rng_count,
                    took_break, sorted_runs, stdout, stderr >>

\* the extraction fails: rng0 is exhausted and append_range returns
EndOfStream ==
    /\ pc = "read"
    /\ ~cin_eof
    /\ cin_eof' = TRUE
    /\ pc' = "count"
    /\ UNCHANGED << cin_bag, words, counts_map, count_pairs, just_counts, cnt_it,
                    n, current, sub_rng, check_count, sub_rng_count,
                    took_break, sorted_runs, stdout, stderr >>

CountOccurrences ==
    /\ pc = "count"
    /\ counts_map' = count_occurrences(words)
    /\ pc' = "collect"
    /\ UNCHANGED << cin_bag, cin_eof, words, count_pairs, just_counts, cnt_it,
                    n, current, sub_rng, check_count, sub_rng_count,
                    took_break, sorted_runs, stdout, stderr >>

\* a plausible slip: the pairs are built per token of words, not per map entry
collected_pairs_per_token(order) ==
    [i \in 1..Len(words) |-> flip_pair(words[i], counts_map[words[i]])]

\* rng1 drained into count_pairs, the keys coming in the given order
collected_pairs(order) ==
    [i \in 1..Len(order) |-> flip_pair(order[i], counts_map[order[i]])]

CollectPairs ==
    /\ pc = "collect"
    /\ \E order \in map_orders(counts_map) :
          /\ count_pairs' = collected_pairs(order)
          /\ just_counts' = {count_pairs'[i][1] : i \in 1..Len(count_pairs')}
    /\ pc' = "sort"
    /\ UNCHANGED << cin_bag, cin_eof, words, counts_map, cnt_it, n, current,
                    sub_rng, check_count, sub_rng_count, took_break,
                    sorted_runs, stdout, stderr >>

\* a plausible slip: the comparator orders the counts ascending
sorted_by_count_ascending(v) ==
    {p \in PermSeqs(v) : \A i, j \in 1..Len(p) : i < j => p[i][1] <= p[j][1]}

\* std::ranges::sort(count_pairs, compare_counts)
sorted_by_count(v) ==
    {p \in PermSeqs(v) :
        \A i, j \in 1..Len(p) : i < j => ~compare_counts(p[j], p[i])}

\* sort by word count, then the set-up of the grouping loop
SortByCount ==
    /\ pc = "sort"
    /\ count_pairs' \in sorted_by_count(count_pairs)
    /\ current' = 1
    /\ check_count' = 0
    /\ sub_rng_count' = 0
    /\ cnt_it' = 1
    /\ pc' = "group"
    /\ UNCHANGED << cin_bag, cin_eof, words, counts_map, just_counts, n, sub_rng,
                    took_break, sorted_runs, stdout, stderr >>

\* a plausible slip: the run is located but left as the sort by count left it
sorted_run_unsorted(v, rng) == {v}

\* std::ranges::sort(sub_rng, compare_words), inside v
sorted_run(v, rng) ==
    {SubSeq(v, 1, rng[1] - 1) \o p \o SubSeq(v, rng[2], Len(v)) :
        p \in {q \in PermSeqs(SubSeq(v, rng[1], rng[2] - 1)) :
                  \A i, j \in 1..Len(q) : i < j => ~compare_words(q[j], q[i])}}

\* one iteration of the range-for over just_counts_rng
GroupIter ==
    /\ pc = "group"
    /\ cnt_it <= Len(just_counts_rng)
    /\ LET nn == just_counts_rng[cnt_it]
           the_search_item == <<nn, << >> >>
           found == find_first_of(count_pairs, current, very_end, the_search_item)
       IN  /\ n' = nn
           /\ check_count' = check_count + 1
           /\ IF found # very_end
              THEN LET sub_rng_end == find_end(count_pairs, found, very_end,
                                               the_search_item)
                       rng == make_sub_rng(found, sub_rng_end)
                   IN  /\ sub_rng' = rng
                       /\ count_pairs' \in sorted_run(count_pairs, rng)
                       /\ current' = IF sub_rng_end # very_end
                                     THEN sub_rng_end ELSE found
                       /\ sub_rng_count' = sub_rng_count + 1
                       /\ sorted_runs' = Append(sorted_runs, rng)
                       /\ cnt_it' = cnt_it + 1
                       /\ UNCHANGED << pc, took_break >>
              ELSE /\ current' = found
                   /\ took_break' = TRUE
                   /\ pc' = "debug"
                   /\ UNCHANGED << count_pairs, sub_rng, sub_rng_count,
                                   sorted_runs, cnt_it >>
    /\ UNCHANGED << cin_bag, cin_eof, words, counts_map, just_counts, stdout,
                    stderr >>

\* just_counts_rng is exhausted
GroupDone ==
    /\ pc = "group"
    /\ cnt_it > Len(just_counts_rng)
    /\ pc' = "debug"
    /\ UNCHANGED << cin_bag, cin_eof, words, counts_map, count_pairs,
                    just_counts, cnt_it, n, current, sub_rng, check_count,
                    sub_rng_count, took_break, sorted_runs, stdout, stderr >>

\* the two debug lines: the count set, then the three sizes
DebugPrint ==
    /\ pc = "debug"
    /\ stderr' = stderr \o
          << <<"word-count-set", just_counts_rng>>,
             <<"sizes", <<Cardinality(just_counts), check_count,
                          sub_rng_count>> >> >>
    /\ pc' = "print"
    /\ UNCHANGED << cin_bag, cin_eof, words, counts_map, count_pairs,
                    just_counts, cnt_it, n, current, sub_rng, check_count,
                    sub_rng_count, took_break, sorted_runs, stdout >>

PrintCollection ==
    /\ pc = "print"
    /\ stdout' = stdout \o print_collection(count_pairs)
    /\ pc' = "unique"
    /\ UNCHANGED << cin_bag, cin_eof, words, counts_map, count_pairs,
                    just_counts, cnt_it, n, current, sub_rng, check_count,
                    sub_rng_count, took_break, sorted_runs, stderr >>

\* std::ranges::sort(words): equal strings are interchangeable, so the one
\* ascending arrangement, built smallest first
RECURSIVE sorted_words(_)
sorted_words(ws) ==
    IF ws = << >> THEN << >>
    ELSE LET k == CHOOSE i \in DOMAIN ws :
                      \A j \in DOMAIN ws : ~string_less(ws[j], ws[i])
         IN  <<ws[k]>> \o sorted_words(SubSeq(ws, 1, k - 1) \o
                                       SubSeq(ws, k + 1, Len(ws)))

\* a plausible slip: unique without the sort before it
sorted_unique_no_sort(ws) == unique(ws)

\* std::ranges::sort(words); unique; erase
sorted_unique(ws) == unique(sorted_words(ws))

SortUniqueWords ==
    /\ pc = "unique"
    /\ words' = sorted_unique(words)
    /\ pc' = "dump"
    /\ UNCHANGED << cin_bag, cin_eof, counts_map, count_pairs, just_counts,
                    cnt_it, n, current, sub_rng, check_count, sub_rng_count,
                    took_break, sorted_runs, stdout, stderr >>

\* the header line, then std::ranges::copy(words, ostream_iterator)
DumpWords ==
    /\ pc = "dump"
    /\ stderr' = stderr \o << <<"counted words", << >> >> >> \o
                 [i \in 1..Len(words) |-> <<"word", words[i]>>]
    /\ pc' = "done"
    /\ UNCHANGED << cin_bag, cin_eof, words, counts_map, count_pairs,
                    just_counts, cnt_it, n, current, sub_rng, check_count,
                    sub_rng_count, took_break, sorted_runs, stdout >>

Next ==
    \/ (BagCardinality(cin_bag) < MaxTokens /\ \E tok \in StreamTokens : ReadToken(tok))
    \/ EndOfStream
    \/ CountOccurrences
    \/ CollectPairs
    \/ SortByCount
    \/ GroupIter
    \/ GroupDone
    \/ DebugPrint
    \/ PrintCollection
    \/ SortUniqueWords
    \/ DumpWords

Spec == Init /\ [][Next]_vars

\* the filter stage alone: one token of the wider alphabet is pulled
NextWord == cin_bag = EmptyBag /\ \E tok \in ProbeTokens : ReadToken(tok)

WordSpec == Init /\ [][NextWord]_vars

-----------------------------------------------------------------------------
(* What the properties are stated in: the rule, the order and the counts,  *)
(* written down independently of the operators above.                      *)

AsciiLetter(c) == c \in (65..90) \cup (97..122)

\* the acceptance rule: first character, then every later character
AlphaWordRule(t) ==
    /\ (AsciiLetter(t[1]) \/ t[1] = 95 \/ t[1] = 35)
    /\ \A i \in 2..Len(t) :
          AsciiLetter(t[i]) \/ ((t[i] = 45 \/ t[i] = 95) /\ t[1] # 35)

Fold(t) == [i \in 1..Len(t) |-> IF t[i] \in 65..90 THEN t[i] + 32 ELSE t[i]]

\* x precedes y in byte-wise lexical order
LexLess(x, y) ==
    \E k \in 1..(Len(y)) :
        /\ \A i \in 1..(k - 1) : i <= Len(x) /\ x[i] = y[i]
        /\ (k > Len(x) \/ (k <= Len(x) /\ x[k] < y[k]))
        /\ k <= Len(x) + 1

LexLeq(x, y) == x = y \/ LexLess(x, y)

\* the accepted, case-folded words of the input read so far
AcceptedWords == {Fold(t) : t \in {u \in BagToSet(cin_bag) : AlphaWordRule(u)}}

\* how many of the tokens read are accepted and fold to w
Occurrences(w) ==
    LET from == {t \in BagToSet(cin_bag) : AlphaWordRule(t) /\ Fold(t) = w}
    IN  BagCardinality([t \in from |-> cin_bag[t]])

TwoKeyLess(x, y) == x[1] > y[1] \/ (x[1] = y[1] /\ LexLess(x[2], y[2]))

\* one sort of the set S of pairs by "count descending, then word ascending"
RECURSIVE TwoKeySort(_)
TwoKeySort(S) ==
    IF S = {} THEN << >>
    ELSE LET m == CHOOSE x \in S : \A y \in S \ {x} : TwoKeyLess(x, y)
         IN  <<m>> \o TwoKeySort(S \ {m})

Range(s) == {s[i] : i \in DOMAIN s}

AfterGroup == pc \in {"debug", "print", "unique", "dump", "done"}
Printed == pc \in {"unique", "dump", "done"}

\* consecutive entries: counts do not increase, equal counts in word order
Ordered(s) ==
    \A i \in 1..(Len(s) - 1) :
        /\ s[i][1] >= s[i + 1][1]
        /\ (s[i][1] = s[i + 1][1] => LexLeq(s[i][2], s[i + 1][2]))

HasRunAndDrop(s) ==
    /\ \E i \in 1..(Len(s) - 1) : s[i][1] = s[i + 1][1]
    /\ \E i \in 1..(Len(s) - 1) : s[i][1] > s[i + 1][1]

\* the words the diagnostic stream lists after its header
DiagWords ==
    LET ls == SelectSeq(stderr, LAMBDA l : l[1] = "word")
    IN  [i \in 1..Len(ls) |-> ls[i][2]]

-----------------------------------------------------------------------------
\* C1: in the primary output (count_pairs once the grouping loop is over, and
\* the lines printed from it) any two consecutive lines have c1 >= c2, and
\* when c1 = c2 the earlier word is lexically <= the later one.
C1_OutputOrdered ==
    /\ (AfterGroup => Ordered(count_pairs))
    /\ Ordered(stdout)

C1_Witness == Printed /\ Len(stdout) >= 3 /\ HasRunAndDrop(stdout)

\* C2: the set of (count, word) lines printed is exactly the map from each
\* accepted, case-folded word of the input to its number of occurrences
\* there: nothing missing, nothing from a rejected token, case ignored, and
\* every count >= 1.
C2_CountsExact ==
    Printed =>
        /\ Range(stdout) = {<<Occurrences(w), w>> : w \in AcceptedWords}
        /\ \A i \in DOMAIN stdout : stdout[i][1] >= 1

\* an input with a rejected token and a word that occurs in both cases
C2_Witness ==
    /\ Printed
    /\ \E t \in BagToSet(cin_bag) : ~AlphaWordRule(t)
    /\ \E t, u \in BagToSet(cin_bag) :
          t # u /\ AlphaWordRule(t) /\ Fold(t) = Fold(u)
    /\ \E i \in DOMAIN stdout : stdout[i][1] >= 2

\* C3: no word is on two entries of count_pairs, at any point of main
\* (before and after both sorts), nor on two lines of the primary output.
C3_WordsUnique ==
    /\ \A i, j \in DOMAIN count_pairs :
          i # j => count_pairs[i][2] # count_pairs[j][2]
    /\ \A i, j \in DOMAIN stdout : i # j => stdout[i][2] # stdout[j][2]

\* a word read more than once, among several words, after printing
C3_Witness ==
    /\ pc = "done"
    /\ Len(stdout) >= 2
    /\ \E i \in DOMAIN stdout : stdout[i][1] >= 2 /\ Occurrences(stdout[i][2]) >= 2

\* C4: is_alpha_word accepts a token exactly when its first character is an
\* ASCII letter, '_' or '#', and every later character is an ASCII letter,
\* or '-' or '_' when the first is not '#'.  So a one-character token is
\* decided by the first-character rule, a token with a digit is rejected, a
\* token starting with '-' is rejected, and a token starting with '#' with a
\* later '-' or '_' is rejected.
C4_AlphaWordRule ==
    BagCardinality(cin_bag) = 1 =>
        LET t == CHOOSE x \in BagToSet(cin_bag) : TRUE
            accepted == (words # << >>)
        IN  /\ accepted <=> AlphaWordRule(t)
            /\ (Len(t) = 1 => (accepted <=> (AsciiLetter(t[1]) \/ t[1] \in {95, 35})))
            /\ ((\E k \in DOMAIN t : t[k] \in 48..57) => ~accepted)
            /\ (t[1] = 45 => ~accepted)
            /\ ((t[1] = 35 /\ \E k \in 2..Len(t) : t[k] \in {45, 95}) => ~accepted)

\* the single token "#" went through the filter and was kept
C4_Witness == cin_bag = SetToBag({<<35>>}) /\ words = << <<35>> >>

\* C5: the sequence the grouped algorithm ends with is, element for element,
\* the one sort of the same pairs by "count descending, then word ascending".
C5_GroupedEqualsTwoKey ==
    AfterGroup =>
        count_pairs =
            TwoKeySort({flip_pair(w, counts_map[w]) : w \in DOMAIN counts_map})

C5_Witness == pc = "debug" /\ Len(count_pairs) >= 3 /\ HasRunAndDrop(count_pairs)

\* C6: the primary output is a function of the input token sequence alone,
\* whatever order the map yields its entries in and whatever order the sort
\* by count leaves equal counts in.
C6_OutputDetermined ==
    Printed => stdout = TwoKeySort({<<Occurrences(w), w>> : w \in AcceptedWords})

\* three words of equal count: six map orders, one output
C6_Witness ==
    /\ pc = "done"
    /\ Len(stdout) >= 3
    /\ \A i \in DOMAIN stdout : stdout[i][1] = stdout[1][1]

\* C7: nothing is written to either stream before the input has been
\* consumed to end-of-stream: every read precedes every write, and counting,
\* sorting and printing start only after append_range has drained the input.
C7_NoOutputBeforeEof ==
    /\ [][(stdout' # stdout \/ stderr' # stderr) => (cin_eof /\ pc # "read")]_vars
    /\ [][cin_bag' # cin_bag => (stdout = << >> /\ stderr = << >> /\ pc = "read")]_vars
    /\ [][(counts_map' # counts_map \/ count_pairs' # count_pairs) => cin_eof]_vars
    /\ [](pc # "read" => cin_eof)

C7_Witness ==
    /\ BagCardinality(cin_bag) >= 2 /\ cin_eof
    /\ stdout # << >> /\ stderr # << >>

\* C8: the word list on the diagnostic stream is the normalized words sorted
\* ascending without duplicates: strictly increasing, and with exactly the
\* words of the primary output.
C8_DiagWordsSortedUnique ==
    pc = "done" =>
        /\ \A i \in 1..(Len(DiagWords) - 1) : LexLess(DiagWords[i], DiagWords[i + 1])
        /\ Range(DiagWords) = {stdout[i][2] : i \in DOMAIN stdout}
        /\ Range(DiagWords) = AcceptedWords

\* several words, one of them read more than once
C8_Witness ==
    /\ pc = "done"
    /\ Len(DiagWords) >= 2
    /\ \E i \in DOMAIN DiagWords : Occurrences(DiagWords[i]) >= 2

\* C9: in an iteration of the grouping loop for the count n, the sub-range
\* that is sorted is exactly the set of positions whose count is n (so a
\* maximal contiguous run); the sort permutes entries inside it only, leaves
\* every entry outside in place and leaves the sequence of counts unchanged.
C9_RunExactAndFramed ==
    [][(pc = "group" /\ sub_rng_count' # sub_rng_count) =>
         LET run == sub_rng'[1]..(sub_rng'[2] - 1)
         IN  /\ run = {i \in DOMAIN count_pairs : count_pairs[i][1] = n'}
             /\ run # {}
             /\ Len(count_pairs') = Len(count_pairs)
             /\ \A i \in (DOMAIN count_pairs) \ run : count_pairs'[i] = count_pairs[i]
             /\ {count_pairs'[i] : i \in run} = {count_pairs[i] : i \in run}
             /\ \A i \in DOMAIN count_pairs : count_pairs'[i][1] = count_pairs[i][1]
      ]_vars

\* a run of two or more entries was sorted, with entries outside it
C9_Witness ==
    /\ pc = "group"
    /\ sorted_runs # << >>
    /\ sub_rng[2] - sub_rng[1] >= 2
    /\ Len(count_pairs) > sub_rng[2] - sub_rng[1]

\* C10: the grouping loop never takes its break branch and runs once per
\* distinct count, so afterwards check_count = sub_rng_count = the size of
\* just_counts (all 0 for empty input), and the sorted runs are pairwise
\* disjoint and together cover count_pairs.
C10_LoopCountsAndCover ==
    /\ ~took_break
    /\ AfterGroup =>
          /\ check_count = Cardinality(just_counts)
          /\ sub_rng_count = Cardinality(just_counts)
          /\ Len(sorted_runs) = sub_rng_count
          /\ \A i, j \in DOMAIN sorted_runs :
                i # j => (sorted_runs[i][1]..(sorted_runs[i][2] - 1))
                           \cap (sorted_runs[j][1]..(sorted_runs[j][2] - 1)) = {}
          /\ UNION {sorted_runs[i][1]..(sorted_runs[i][2] - 1) : i \in DOMAIN sorted_runs}
                = DOMAIN count_pairs

C10_Witness ==
    /\ pc = "debug"
    /\ Cardinality(just_counts) >= 2
    /\ check_count = Cardinality(just_counts)
    /\ Len(count_pairs) >= 3

=============================================================================
